---- MODULE Spec2Model ----
(***************************************************************************)
(* Nutricare: the nutrition classifier (calculate_bmi, classify_build,     *)
(* classify_muac, get_recommendation) of main.py and models.py, and the    *)
(* front-ends of main.py that call it and persist PatientDB rows: the HTTP *)
(* endpoints and the Telegram /add conversation; the command bot of bot.py *)
(* that talks to the endpoints; POST /webhook and the deferred start-up.   *)
(*                                                                         *)
(* Python floats are modelled as exact rationals [n, d] in lowest terms    *)
(* (d > 0); round(x, 2) rounds to the nearest hundredth, halves to even.   *)
(* float('inf') is [n |-> 1, d |-> 0], which the comparisons and the       *)
(* quotient by a positive float treat as the float does.                   *)
(***************************************************************************)
EXTENDS Integers, Sequences, FiniteSets, TLC

VARIABLES
    patients,   \* the patientdb table: the rows in insertion order
    conv,       \* ConversationHandler state of each chat user
    user_data,  \* context.user_data of each chat user
    last,       \* what the last handler did: operation, outcome, classifier call
    probe,      \* a classifier function applied to a drawn input, and its result
    engine,     \* the database engine, None until it is created
    application \* the Telegram Application, None until it is built

vars == <<patients, conv, user_data, last, probe, engine, application>>

-----------------------------------------------------------------------------
(* Floats as rationals *)

RECURSIVE GCD(_, _)
GCD(a, b) == IF b = 0 THEN a ELSE GCD(b, a % b)

Abs(x) == IF x < 0 THEN -x ELSE x

\* the float n/d (d # 0), in lowest terms with a positive denominator
F(n, d) ==
    LET g == GCD(Abs(n), Abs(d))
        s == IF d < 0 THEN -1 ELSE 1
    IN  [n |-> (s * n) \div g, d |-> (s * d) \div g]

FInt(k) == F(k, 1)

FLt(a, b) == a.n * b.d < b.n * a.d

FLe(a, b) == a.n * b.d <= b.n * a.d

FMul(a, b) == F(a.n * b.n, a.d * b.d)

\* a / b raises ZeroDivisionError when b is 0.0: the raised exception is the
\* value with denominator 0, which no float has
ZeroDivisionError == [n |-> 0, d |-> 0]

FDiv(a, b) == IF b.n = 0 THEN ZeroDivisionError ELSE F(a.n * b.d, a.d * b.n)

\* round(x, 2): nearest multiple of 0.01, an exact half goes to the even one
\* (as Python rounds 15.125; a decimal half that the binary float misses, such
\* as 15.135, is rounded here as the exact half it is written as)
round(x, ndigits) ==
    LET scale == 10 ^ ndigits
        num   == x.n * scale
        q     == num \div x.d
        r     == num % x.d
        k     == IF 2 * r < x.d THEN q
                 ELSE IF 2 * r > x.d THEN q + 1
                 ELSE IF q % 2 = 0 THEN q ELSE q + 1
    IN  IF x.d = 0 THEN x ELSE F(k, scale)

-----------------------------------------------------------------------------
(* The classifier of main.py *)

\* the quotient cut to two decimals instead of rounded
calculate_bmi_truncated(weight, height) ==
    LET height_m == FDiv(height, FInt(100))
        quotient == FDiv(weight, FMul(height_m, height_m))
    IN  IF quotient = ZeroDivisionError THEN ZeroDivisionError
        ELSE F((quotient.n * 100) \div quotient.d, 100)

calculate_bmi(weight, height) ==
    LET height_m == FDiv(height, FInt(100))
        quotient == FDiv(weight, FMul(height_m, height_m))
    IN  IF quotient = ZeroDivisionError THEN ZeroDivisionError
        ELSE round(quotient, 2)

classify_build(bmi) ==
    IF FLt(bmi, FInt(16)) THEN "Severely underweight"
    ELSE IF FLt(bmi, F(185, 10)) THEN "Underweight"
    ELSE IF FLt(bmi, FInt(25)) THEN "Normal"
    ELSE IF FLt(bmi, FInt(30)) THEN "Overweight"
    ELSE "Obese"

\* the status taken relative to the stored rows: Normal from the largest
\* stored MUAC on
classify_muac_relative(muac) ==
    IF \E i \in DOMAIN patients : TRUE
    THEN IF \A i \in DOMAIN patients : FLe(patients[i].muac_mm, muac) THEN "Normal"
         ELSE IF FLt(muac, FInt(115)) THEN "SAM" ELSE "MAM"
    ELSE IF FLt(muac, FInt(115)) THEN "SAM"
    ELSE IF FLt(muac, FInt(125)) THEN "MAM"
    ELSE "Normal"

\* a fourth class between 125 and 135 mm
classify_muac_at_risk(muac) ==
    IF FLt(muac, FInt(115)) THEN "SAM"
    ELSE IF FLt(muac, FInt(125)) THEN "MAM"
    ELSE IF FLt(muac, FInt(135)) THEN "At risk"
    ELSE "Normal"

\* the lower cutoff taken inclusive
classify_muac_inclusive(muac) ==
    IF FLe(muac, FInt(115)) THEN "SAM"
    ELSE IF FLt(muac, FInt(125)) THEN "MAM"
    ELSE "Normal"

classify_muac(muac) ==
    IF FLt(muac, FInt(115)) THEN "SAM"
    ELSE IF FLt(muac, FInt(125)) THEN "MAM"
    ELSE "Normal"

RecSAM == "Severe Acute Malnutrition - Immediate referral to therapeutic feeding program, medical evaluation, and supplementary feeding."
RecMAM == "Moderate Acute Malnutrition - Provide supplementary feeding, monitor closely, and educate on balanced diet."
RecNormal == "Normal - Maintain healthy diet and regular check-ups."

get_recommendation(nutrition_status) ==
    IF nutrition_status = "SAM" THEN RecSAM
    ELSE IF nutrition_status = "MAM" THEN RecMAM
    ELSE RecNormal

-----------------------------------------------------------------------------
(* The classifier of models.py *)

models_calculate_bmi(weight_kg, height_cm) ==
    LET height_m == FDiv(height_cm, FInt(100))
    IN  FDiv(weight_kg, FMul(height_m, height_m))

models_classify_build(bmi) ==
    IF FLt(bmi, F(185, 10)) THEN "Underweight"
    ELSE IF FLe(F(185, 10), bmi) /\ FLt(bmi, FInt(25)) THEN "Normal"
    ELSE IF FLe(FInt(25), bmi) /\ FLt(bmi, FInt(30)) THEN "Overweight"
    ELSE "Obese"

models_classify_muac(muac_mm) ==
    IF FLt(muac_mm, FInt(115)) THEN "SAM"
    ELSE IF FLe(FInt(115), muac_mm) /\ FLt(muac_mm, FInt(125)) THEN "MAM"
    ELSE "Normal"

models_recommendations ==
    [SAM    |-> "Immediate medical attention and nutritional support required.",
     MAM    |-> "Nutritional supplementation recommended.",
     Normal |-> "Maintain healthy diet and regular check-ups."]

models_get_recommendation(nutrition_status) ==
    IF nutrition_status \in DOMAIN models_recommendations
    THEN models_recommendations[nutrition_status]
    ELSE "Consult a healthcare provider."

-----------------------------------------------------------------------------
(* Inputs the classifier is applied to *)

MaxBmi == 32             \* bmi arguments run from 10 to MaxBmi in steps of 0.05
MaxMuac == 130           \* muac arguments run from 105 to MaxMuac in steps of 0.5
MaxWeightQuarters == 90  \* weights run from 0.25 kg in steps of 0.25 kg
MaxHeight == 120         \* heights run from 40 cm to MaxHeight in steps of 5 cm

Bmis == {F(k, 20) : k \in 200 .. 20 * MaxBmi}

Muacs == {F(k, 2) : k \in 210 .. 2 * MaxMuac}

\* 1 g and 4 g stand for weights whose quotient lies below half a hundredth
Weights == {F(k, 4) : k \in 1 .. MaxWeightQuarters} \cup {F(1, 1000), F(4, 1000)}

Heights == {FInt(5 * k) : k \in 8 .. MaxHeight \div 5} \cup {FInt(0)}

\* status strings, among them decorated ones and one that names both classes
Statuses ==
    {"SAM", "MAM", "Normal", "SAM (Severe Acute Malnutrition)",
     "MAM (Moderate Acute Malnutrition)", "SAM/MAM", "normal", ""}

-----------------------------------------------------------------------------
(* The derived fields, as every front-end computes them: bmi, build,       *)
(* nutrition_status, recommendation, in this order; calculate_bmi's        *)
(* exception leaves the handler before the other three are called          *)

\* the recommendation looked up by the build instead of the nutrition status
derive_by_build(weight, height, muac) ==
    LET bmi == calculate_bmi(weight, height)
    IN  IF bmi = ZeroDivisionError THEN ZeroDivisionError
        ELSE [bmi |-> bmi,
              build |-> classify_build(bmi),
              nutrition_status |-> classify_muac(muac),
              recommendation |-> get_recommendation(classify_build(bmi))]

derive(weight, height, muac) ==
    LET bmi == calculate_bmi(weight, height)
        nutrition_status == classify_muac(muac)
    IN  IF bmi = ZeroDivisionError THEN ZeroDivisionError
        ELSE [bmi |-> bmi,
              build |-> classify_build(bmi),
              nutrition_status |-> nutrition_status,
              recommendation |-> get_recommendation(nutrition_status)]

-----------------------------------------------------------------------------
(* Initial state *)

NoProbe == [fn |-> "none", arg |-> <<>>, res |-> <<>>]

\* a Telegram user: conversations and user_data are kept per user
Users == {"u1", "u2"}

\* ConversationHandler.END: the user is in no conversation
END == "END"

\* no handler has run yet
NoCall == [op |-> "none", outcome |-> "none", called |-> <<>>]

\* the module of lines 1-310 creates the engine and builds the Application
\* when it is loaded
Init ==
    /\ patients = <<>>
    /\ conv = [u \in Users |-> END]
    /\ user_data = [u \in Users |-> <<>>]
    /\ last = NoCall
    /\ probe = NoProbe
    /\ engine = "Engine"
    /\ application = "Application"

-----------------------------------------------------------------------------
(* The classifier functions, each applied once to a drawn input *)

system == <<patients, conv, user_data, last, engine, application>>

call_calculate_bmi ==
    /\ probe = NoProbe
    /\ \E w \in Weights, h \in Heights :
          probe' = [fn |-> "calculate_bmi", arg |-> <<w, h>>, res |-> calculate_bmi(w, h)]
    /\ UNCHANGED system

call_classify_build ==
    /\ probe = NoProbe
    /\ \E b \in Bmis :
          probe' = [fn |-> "classify_build", arg |-> b, res |-> classify_build(b)]
    /\ UNCHANGED system

call_classify_muac ==
    /\ probe = NoProbe
    /\ \E m \in Muacs :
          probe' = [fn |-> "classify_muac", arg |-> m, res |-> classify_muac(m)]
    /\ UNCHANGED system

call_get_recommendation ==
    /\ probe = NoProbe
    /\ \E s \in Statuses :
          probe' = [fn |-> "get_recommendation", arg |-> s, res |-> get_recommendation(s)]
    /\ UNCHANGED system

call_models_calculate_bmi ==
    /\ probe = NoProbe
    /\ \E w \in Weights, h \in Heights :
          probe' = [fn |-> "models.calculate_bmi", arg |-> <<w, h>>,
                    res |-> models_calculate_bmi(w, h)]
    /\ UNCHANGED system

call_models_classify_build ==
    /\ probe = NoProbe
    /\ \E b \in Bmis :
          probe' = [fn |-> "models.classify_build", arg |-> b,
                    res |-> models_classify_build(b)]
    /\ UNCHANGED system

call_models_classify_muac ==
    /\ probe = NoProbe
    /\ \E m \in Muacs :
          probe' = [fn |-> "models.classify_muac", arg |-> m,
                    res |-> models_classify_muac(m)]
    /\ UNCHANGED system

call_models_get_recommendation ==
    /\ probe = NoProbe
    /\ \E s \in Statuses :
          probe' = [fn |-> "models.get_recommendation", arg |-> s,
                    res |-> models_get_recommendation(s)]
    /\ UNCHANGED system

call_pipeline ==
    /\ probe = NoProbe
    /\ \E w \in Weights, h \in Heights, m \in {FInt(118), FInt(120), FInt(130)} :
          probe' = [fn |-> "pipeline", arg |-> <<w, h, m>>, res |-> derive(w, h, m)]
    /\ UNCHANGED system

NextFn ==
    \/ call_models_calculate_bmi
    \/ call_models_classify_build
    \/ call_models_classify_muac
    \/ call_models_get_recommendation
    \/ call_calculate_bmi
    \/ call_classify_build
    \/ call_classify_muac
    \/ call_get_recommendation
    \/ call_pipeline

SpecFn == Init /\ [][NextFn]_vars

-----------------------------------------------------------------------------
(* Message texts: a text is the sequence of its characters *)

Digit == [c \in {"0", "1", "2", "3", "4", "5", "6", "7", "8", "9"} |->
            CASE c = "0" -> 0 [] c = "1" -> 1 [] c = "2" -> 2 [] c = "3" -> 3
              [] c = "4" -> 4 [] c = "5" -> 5 [] c = "6" -> 6 [] c = "7" -> 7
              [] c = "8" -> 8 [] c = "9" -> 9]

IsDigits(t) == \A i \in DOMAIN t : t[i] \in DOMAIN Digit

RECURSIVE DigitsValue(_)
DigitsValue(t) ==
    IF t = <<>> THEN 0
    ELSE 10 * DigitsValue(SubSeq(t, 1, Len(t) - 1)) + Digit[t[Len(t)]]

\* int(text), float(text) raise ValueError on a text that is no numeral
ValueError == [ok |-> FALSE, val |-> 0]

Unsigned(t) == IF t # <<>> /\ t[1] \in {"-", "+"} THEN Tail(t) ELSE t

Sign(t) == IF t # <<>> /\ t[1] = "-" THEN -1 ELSE 1

\* int(text): an optional sign and one or more decimal digits
int(text) ==
    LET body == Unsigned(text)
    IN  IF body # <<>> /\ IsDigits(body)
        THEN [ok |-> TRUE, val |-> Sign(text) * DigitsValue(body)]
        ELSE ValueError

\* the words float() reads as infinity
FloatWords == {<<"i", "n", "f">>, <<"i", "n", "f", "i", "n", "i", "t", "y">>}

\* float(text): an optional sign, then either decimal digits with at most
\* one point among them and at least one digit, or one of the words inf and
\* infinity (the texts drawn here hold no exponent, no underscore, no blank,
\* no capital and not the word nan)
float(text) ==
    LET body  == Unsigned(text)
        dots  == {i \in DOMAIN body : body[i] = "."}
        whole == IF dots = {} THEN body
                 ELSE SubSeq(body, 1, (CHOOSE i \in dots : TRUE) - 1)
        frac  == IF dots = {} THEN <<>>
                 ELSE SubSeq(body, (CHOOSE i \in dots : TRUE) + 1, Len(body))
    IN  IF body \in FloatWords
        THEN [ok |-> TRUE, val |-> [n |-> Sign(text), d |-> 0]]
        ELSE IF /\ Cardinality(dots) <= 1
                /\ IsDigits(whole) /\ IsDigits(frac)
                /\ Len(whole) + Len(frac) > 0
        THEN [ok |-> TRUE,
              val |-> F(Sign(text) * (DigitsValue(whole) * 10 ^ Len(frac) + DigitsValue(frac)),
                        10 ^ Len(frac))]
        ELSE ValueError

-----------------------------------------------------------------------------
(* The patientdb table *)

MaxPatients == 2   \* rows the table holds at most

\* PatientDB(...): a row not yet inserted has id None, written 0 (the ids the
\* table assigns start at 1)
PatientDB(name_, age_, weight_kg, height_cm, muac_mm, d) ==
    [id |-> 0, name |-> name_, age |-> age_, weight_kg |-> weight_kg,
     height_cm |-> height_cm, muac_mm |-> muac_mm, bmi |-> d.bmi, build |-> d.build,
     nutrition_status |-> d.nutrition_status, recommendation |-> d.recommendation]

RECURSIVE MaxId(_)
MaxId(table) ==
    IF table = <<>> THEN 0
    ELSE LET m == MaxId(Tail(table))
         IN  IF Head(table).id > m THEN Head(table).id ELSE m

\* a row with the name of the new one is replaced by it
session_commit_upsert(table, row) ==
    LET new == [row EXCEPT !.id = MaxId(table) + 1]
    IN  IF \E i \in DOMAIN table : table[i].name = row.name
        THEN [i \in DOMAIN table |-> IF table[i].name = row.name THEN new ELSE table[i]]
        ELSE Append(table, new)

\* the row is inserted with the id it was built with
session_commit_no_id(table, row) == Append(table, row)

\* session.add(row); session.commit(): the row is inserted under the next id
\* of the autoincrement primary key
session_commit(table, row) == Append(table, [row EXCEPT !.id = MaxId(table) + 1])

\* the cutoffs of an older age band (135 and 145 mm) applied above 5 years
build_patient_age_banded(name_, age_, weight_kg, height_cm, muac_mm) ==
    LET shifted == IF age_ <= 5 THEN muac_mm
                   ELSE F(muac_mm.n - 20 * muac_mm.d, muac_mm.d)
        d == derive(weight_kg, height_cm, shifted)
    IN  IF d = ZeroDivisionError THEN ZeroDivisionError
        ELSE PatientDB(name_, age_, weight_kg, height_cm, muac_mm, d)

\* lines 257-272 and 106-123 of main.py: the derived fields computed from the
\* inputs and the row built from both; the exception of calculate_bmi passes
build_patient(name_, age_, weight_kg, height_cm, muac_mm) ==
    LET d == derive(weight_kg, height_cm, muac_mm)
    IN  IF d = ZeroDivisionError THEN ZeroDivisionError
        ELSE PatientDB(name_, age_, weight_kg, height_cm, muac_mm, d)

-----------------------------------------------------------------------------
(* Inputs of the front-ends *)

NameTexts == {<<"A", "d", "a">>}
AgeTexts == {<<"3">>, <<"a", "b", "c">>}
WeightTexts == {<<"1", "5">>, <<"x">>}
HeightTexts == {<<"1", "0", "0">>, <<"0">>, <<"t", "a", "l", "l">>}
MuacTexts == {<<"1", "1", "0">>, <<"1", "2", "0">>, <<"1", "3", "0">>, <<"t", "h", "i", "n">>}

\* the bodies of POST /patients and the forms of POST /dashboard/add, as the
\* framework hands them to the handler: typed by the Patient model
Patients ==
    [name : NameTexts, age : {3, 7}, weight_kg : {FInt(15)},
     height_cm : {FInt(0), FInt(100)}, muac_mm : {FInt(110), FInt(120), FInt(130)}]

\* dict[key] = value
Put(dict, key, value) ==
    [k \in DOMAIN dict \cup {key} |-> IF k = key THEN value ELSE dict[k]]

Reply(op, outcome) == [op |-> op, outcome |-> outcome, called |-> <<>>]

-----------------------------------------------------------------------------
(* HTTP endpoints. GET /patients, GET /export and GET /dashboard select the *)
(* rows and answer: they assign nothing.                                   *)

\* POST /patients; POST /dashboard/add builds the Patient from the form and
\* calls the same function. An exception of the handler is answered with 500.
add_patient_api(patient, route) ==
    LET db_patient == build_patient(patient.name, patient.age, patient.weight_kg,
                                    patient.height_cm, patient.muac_mm)
        called == <<<<patient.weight_kg, patient.height_cm>>>>
    IN  IF db_patient = ZeroDivisionError
        THEN /\ last' = [op |-> route, outcome |-> "500", called |-> called]
             /\ UNCHANGED <<patients, conv, user_data, probe, engine, application>>
        ELSE /\ Len(patients) < MaxPatients
             /\ patients' = session_commit(patients, db_patient)
             /\ last' = [op |-> route, outcome |-> "200", called |-> called]
             /\ UNCHANGED <<conv, user_data, probe, engine, application>>

post_patients == \E patient \in Patients : add_patient_api(patient, "POST /patients")

add_from_dashboard ==
    \E n \in NameTexts, a \in {3, 7}, w \in {FInt(15)},
       h \in {FInt(0), FInt(100)}, m \in {FInt(110), FInt(120), FInt(130)} :
        add_patient_api([name |-> n, age |-> a, weight_kg |-> w, height_cm |-> h,
                         muac_mm |-> m], "POST /dashboard/add")

get_patients == UNCHANGED vars

http_export_csv == UNCHANGED vars

dashboard == UNCHANGED vars

-----------------------------------------------------------------------------
(* Telegram handlers; an update reaches them through POST /webhook.        *)
(* /start, /list and /export reply and assign nothing.                     *)

start(u) == u \in Users /\ UNCHANGED vars

\* /add is the entry point: it is taken by a user who is in no conversation
add_patient(u) ==
    /\ conv[u] = END
    /\ conv' = [conv EXCEPT ![u] = "NAME"]
    /\ last' = Reply("/add", "Enter patient name:")
    /\ UNCHANGED <<patients, user_data, probe, engine, application>>

\* the name is kept in one place for all users
name_shared(u, text) ==
    /\ conv[u] = "NAME"
    /\ user_data' = [v \in Users |->
                        IF v = u \/ "name" \in DOMAIN user_data[v]
                        THEN Put(user_data[v], "name", text) ELSE user_data[v]]
    /\ conv' = [conv EXCEPT ![u] = "AGE"]
    /\ last' = Reply("name", "Enter age:")
    /\ UNCHANGED <<patients, probe, engine, application>>

\* the name is stored and the weight is asked for next
name_skips_age(u, text) ==
    /\ conv[u] = "NAME"
    /\ user_data' = [user_data EXCEPT ![u] = Put(@, "name", text)]
    /\ conv' = [conv EXCEPT ![u] = "WEIGHT"]
    /\ last' = Reply("name", "Enter weight in kg:")
    /\ UNCHANGED <<patients, probe, engine, application>>

name(u, text) ==
    /\ conv[u] = "NAME"
    /\ user_data' = [user_data EXCEPT ![u] = Put(@, "name", text)]
    /\ conv' = [conv EXCEPT ![u] = "AGE"]
    /\ last' = Reply("name", "Enter age:")
    /\ UNCHANGED <<patients, probe, engine, application>>

age(u, text) ==
    /\ conv[u] = "AGE"
    /\ IF ~int(text).ok
       THEN /\ last' = Reply("age", "Invalid age. Enter a number:")
            /\ UNCHANGED <<patients, conv, user_data, probe, engine, application>>
       ELSE /\ user_data' = [user_data EXCEPT ![u] = Put(@, "age", int(text).val)]
            /\ conv' = [conv EXCEPT ![u] = "WEIGHT"]
            /\ last' = Reply("age", "Enter weight in kg:")
            /\ UNCHANGED <<patients, probe, engine, application>>

weight(u, text) ==
    /\ conv[u] = "WEIGHT"
    /\ IF ~float(text).ok
       THEN /\ last' = Reply("weight", "Invalid weight. Enter a number:")
            /\ UNCHANGED <<patients, conv, user_data, probe, engine, application>>
       ELSE /\ user_data' = [user_data EXCEPT ![u] = Put(@, "weight", float(text).val)]
            /\ conv' = [conv EXCEPT ![u] = "HEIGHT"]
            /\ last' = Reply("weight", "Enter height in cm:")
            /\ UNCHANGED <<patients, probe, engine, application>>

height(u, text) ==
    /\ conv[u] = "HEIGHT"
    /\ IF ~float(text).ok
       THEN /\ last' = Reply("height", "Invalid height. Enter a number:")
            /\ UNCHANGED <<patients, conv, user_data, probe, engine, application>>
       ELSE /\ user_data' = [user_data EXCEPT ![u] = Put(@, "height", float(text).val)]
            /\ conv' = [conv EXCEPT ![u] = "MUAC"]
            /\ last' = Reply("height", "Enter MUAC in mm:")
            /\ UNCHANGED <<patients, probe, engine, application>>

\* the last step with the recommendation looked up by the build
muac_recommends_by_build(u, text) ==
    /\ conv[u] = "MUAC"
    /\ IF ~float(text).ok
       THEN /\ last' = Reply("muac", "Invalid MUAC. Enter a number:")
            /\ UNCHANGED <<patients, conv, user_data, probe, engine, application>>
       ELSE LET data == Put(user_data[u], "muac", float(text).val)
                d == derive_by_build(data.weight, data.height, data.muac)
                called == <<<<data.weight, data.height>>>>
            IN  IF d = ZeroDivisionError
                THEN /\ user_data' = [user_data EXCEPT ![u] = data]
                     /\ last' = [op |-> "muac", outcome |-> "ZeroDivisionError",
                                 called |-> called]
                     /\ UNCHANGED <<patients, conv, probe, engine, application>>
                ELSE /\ Len(patients) < MaxPatients
                     /\ patients' = session_commit(patients,
                            PatientDB(data.name, data.age, data.weight, data.height,
                                      data.muac, d))
                     /\ user_data' = [user_data EXCEPT ![u] = <<>>]
                     /\ conv' = [conv EXCEPT ![u] = END]
                     /\ last' = [op |-> "muac", outcome |-> "Patient added to database!",
                                 called |-> called]
                     /\ UNCHANGED <<probe, engine, application>>

\* the last step: user_data['muac'] is set before the classifier is called,
\* so an exception of calculate_bmi leaves it set and the conversation in
\* MUAC (the library logs the exception and keeps the state)
muac(u, text) ==
    /\ conv[u] = "MUAC"
    /\ IF ~float(text).ok
       THEN /\ last' = Reply("muac", "Invalid MUAC. Enter a number:")
            /\ UNCHANGED <<patients, conv, user_data, probe, engine, application>>
       ELSE LET data == Put(user_data[u], "muac", float(text).val)
                patient_db == build_patient(data.name, data.age, data.weight,
                                            data.height, data.muac)
                called == <<<<data.weight, data.height>>>>
            IN  IF patient_db = ZeroDivisionError
                THEN /\ user_data' = [user_data EXCEPT ![u] = data]
                     /\ last' = [op |-> "muac", outcome |-> "ZeroDivisionError",
                                 called |-> called]
                     /\ UNCHANGED <<patients, conv, probe, engine, application>>
                ELSE /\ Len(patients) < MaxPatients
                     /\ patients' = session_commit(patients, patient_db)
                     /\ user_data' = [user_data EXCEPT ![u] = <<>>]
                     /\ conv' = [conv EXCEPT ![u] = END]
                     /\ last' = [op |-> "muac", outcome |-> "Patient added to database!",
                                 called |-> called]
                     /\ UNCHANGED <<probe, engine, application>>

\* the conversation is ended and the collected fields are kept
cancel_keeps_user_data(u) ==
    /\ conv[u] # END
    /\ conv' = [conv EXCEPT ![u] = END]
    /\ last' = Reply("/cancel", "Operation cancelled.")
    /\ UNCHANGED <<patients, user_data, probe, engine, application>>

\* /cancel is the fallback of the conversation: it is taken in any of its states
cancel(u) ==
    /\ conv[u] # END
    /\ user_data' = [user_data EXCEPT ![u] = <<>>]
    /\ conv' = [conv EXCEPT ![u] = END]
    /\ last' = Reply("/cancel", "Operation cancelled.")
    /\ UNCHANGED <<patients, probe, engine, application>>

list_patients(u) == u \in Users /\ UNCHANGED vars

export_csv(u) == u \in Users /\ UNCHANGED vars

Next ==
    \/ post_patients
    \/ add_from_dashboard
    \/ get_patients
    \/ http_export_csv
    \/ dashboard
    \/ \E u \in Users : start(u)
    \/ \E u \in Users : add_patient(u)
    \/ \E u \in Users, text \in NameTexts : name(u, text)
    \/ \E u \in Users, text \in AgeTexts : age(u, text)
    \/ \E u \in Users, text \in WeightTexts : weight(u, text)
    \/ \E u \in Users, text \in HeightTexts : height(u, text)
    \/ \E u \in Users, text \in MuacTexts : muac(u, text)
    \/ \E u \in Users : cancel(u)
    \/ \E u \in Users : list_patients(u)
    \/ \E u \in Users : export_csv(u)

Spec == Init /\ [][Next]_vars

-----------------------------------------------------------------------------
(* What the reading handlers answer, as a function of the table. A CSV     *)
(* cell is the value written; csv's quoting and str() are left out.        *)

\* select(PatientDB): the rows in the order of their ids
select_all(table) == table

CsvHeader ==
    <<"id", "name", "age", "weight_kg", "height_cm", "muac_mm", "bmi", "build",
      "nutrition_status", "recommendation">>

csv_row(p) ==
    <<p.id, p.name, p.age, p.weight_kg, p.height_cm, p.muac_mm, p.bmi, p.build,
      p.nutrition_status, p.recommendation>>

\* GET /export and the /export command of main.py: writer.writerow(header),
\* then one writer.writerow per selected row
writer_rows(table) ==
    LET rows == select_all(table)
    IN  <<CsvHeader>> \o [i \in DOMAIN rows |-> csv_row(rows[i])]

\* GET /patients: one PatientResponse per row, as the JSON objects bot.py reads
get_patients_json(table) ==
    LET rows == select_all(table)
    IN  [i \in DOMAIN rows |-> rows[i]]

\* sum(1 for p in patients if p.nutrition_status == status)
CountStatus(rows, status) ==
    Cardinality({i \in DOMAIN rows : rows[i].nutrition_status = status})

\* GET /dashboard: the summary handed to the template
dashboard_summary(table) ==
    LET rows == select_all(table)
    IN  [total |-> Len(rows), sam |-> CountStatus(rows, "SAM"),
         mam |-> CountStatus(rows, "MAM"), normal |-> CountStatus(rows, "Normal")]

\* get_patient_summary(session), which /list of main.py appends to its reply
get_patient_summary(table) ==
    LET rows == select_all(table)
    IN  [total |-> Len(rows), sam |-> CountStatus(rows, "SAM"),
         mam |-> CountStatus(rows, "MAM"), normal |-> CountStatus(rows, "Normal")]

\* bot.py /summary: the header counts over the objects of GET /patients
\* (without patients it replies that there are none and counts nothing)
bot_summary(table) ==
    LET patients_json == get_patients_json(table)
    IN  [total |-> Len(patients_json), sam |-> CountStatus(patients_json, "SAM"),
         mam |-> CountStatus(patients_json, "MAM"),
         normal |-> CountStatus(patients_json, "Normal")]

\* bot.py /export: the fieldnames of its csv.DictWriter
BotFieldnames ==
    <<"name", "age", "weight_kg", "height_cm", "muac_mm", "bmi", "build",
      "nutrition_status">>

Range(seq) == {seq[i] : i \in DOMAIN seq}

\* csv.DictWriter(file, fieldnames).writerows(dicts): a dict with a key that
\* is no fieldname raises ValueError (extrasaction is 'raise')
DictWriter_writerows(fieldnames, dicts) ==
    IF \E i \in DOMAIN dicts : DOMAIN dicts[i] \ Range(fieldnames) # {}
    THEN [ok |-> FALSE, rows |-> <<>>]
    ELSE [ok |-> TRUE,
          rows |-> [i \in DOMAIN dicts |-> [k \in DOMAIN fieldnames |-> dicts[i][fieldnames[k]]]]]

\* bot.py /export: GET /patients, then the CSV file, then the document; any
\* exception is replied as an error
bot_export(table) ==
    LET patients_json == get_patients_json(table)
        written == DictWriter_writerows(BotFieldnames, patients_json)
    IN  IF patients_json = <<>>
        THEN [reply |-> "No patients to export.", document |-> <<>>]
        ELSE IF ~written.ok
        THEN [reply |-> "Error: dict contains fields not in fieldnames", document |-> <<>>]
        ELSE [reply |-> "patients_export.csv", document |-> <<BotFieldnames>> \o written.rows]

\* session.refresh(db_patient): the inserted row, read back with its id
session_refresh(table) == table[Len(table)]

\* PatientResponse(id=db_patient.id, **db_patient.dict(exclude={'id'}))
PatientResponse(db_patient) ==
    [id |-> db_patient.id, name |-> db_patient.name, age |-> db_patient.age,
     weight_kg |-> db_patient.weight_kg, height_cm |-> db_patient.height_cm,
     muac_mm |-> db_patient.muac_mm, bmi |-> db_patient.bmi, build |-> db_patient.build,
     nutrition_status |-> db_patient.nutrition_status,
     recommendation |-> db_patient.recommendation]

\* the body POST /patients answers with when the handler raises nothing
add_patient_api_response(table, patient) ==
    LET db_patient == build_patient(patient.name, patient.age, patient.weight_kg,
                                    patient.height_cm, patient.muac_mm)
    IN  PatientResponse(session_refresh(session_commit(table, db_patient)))

-----------------------------------------------------------------------------
(* bot.py: the command bot that talks to the API over HTTP, next to the    *)
(* conversation of one chat user who also sends words float() reads        *)

AgeWords == AgeTexts \cup {<<"i", "n", "f">>}
WeightWords == WeightTexts \cup {<<"i", "n", "f">>}
HeightWords == {<<"1", "0", "0">>, <<"t", "a", "l", "l">>}
MuacWords == {<<"1", "1", "0">>, <<"1", "3", "0">>, <<"t", "h", "i", "n">>, <<"i", "n", "f">>}

\* context.args of /add: the words after the command (none of them a word
\* float() reads)
BotArgs ==
    {<<>>,
     <<<<"A", "d", "a">>, <<"3">>, <<"1", "5">>, <<"1", "0", "0">>>>,
     <<<<"A", "d", "a">>, <<"3">>, <<"1", "5">>, <<"1", "0", "0">>, <<"1", "1", "0">>>>,
     <<<<"A", "d", "a">>, <<"3">>, <<"1", "5">>, <<"1", "0", "0">>, <<"1", "3", "0">>>>,
     <<<<"A", "d", "a">>, <<"3">>, <<"1", "5">>, <<"0">>, <<"1", "2", "0">>>>,
     <<<<"A", "d", "a">>, <<"a", "b", "c">>, <<"1", "5">>, <<"1", "0", "0">>, <<"1", "1", "0">>>>,
     <<<<"A", "d", "a">>, <<"3">>, <<"x">>, <<"1", "0", "0">>, <<"1", "1", "0">>>>,
     <<<<"A", "d", "a">>, <<"3">>, <<"1", "5">>, <<"1", "0", "0">>, <<"t", "h", "i", "n">>>>,
     <<<<"A", "d", "a">>, <<"3">>, <<"1", "5">>, <<"1", "0", "0">>, <<"1", "1", "0">>, <<"x">>>>}

\* what the bot did: its reply, the requests it posted, and the classifier
\* call of the API handler that served them
BotReply(outcome, posted, called, reply) ==
    [op |-> "bot /add", outcome |-> outcome, called |-> called, posted |-> posted,
     reply |-> reply]

\* the reply read from data['data'] of the decoded response; a dict without
\* that key raises KeyError('data'), which the handler replies as an error
add_reply(data) ==
    IF "data" \in DOMAIN data
    THEN [text |-> "Added", name |-> data["data"].name,
          nutrition_status |-> data["data"].nutrition_status]
    ELSE [text |-> "Error: 'data'", name |-> <<>>, nutrition_status |-> ""]

\* bot.py /add. The request is served by add_patient_api: a 200 carries the
\* PatientResponse, a 500 a body that response.json() cannot decode.
add(args) ==
    IF Len(args) # 5
    THEN /\ last' = BotReply("Usage: /add Name Age Weight(kg) Height(cm) MUAC(mm)",
                             <<>>, <<>>, <<>>)
         /\ UNCHANGED <<patients, conv, user_data, probe, engine, application>>
    ELSE IF ~int(args[2]).ok \/ ~float(args[3]).ok \/ ~float(args[4]).ok \/ ~float(args[5]).ok
    THEN /\ last' = BotReply("Error: ValueError", <<>>, <<>>, <<>>)
         /\ UNCHANGED <<patients, conv, user_data, probe, engine, application>>
    ELSE LET payload == [name |-> args[1], age |-> int(args[2]).val,
                         weight_kg |-> float(args[3]).val, height_cm |-> float(args[4]).val,
                         muac_mm |-> float(args[5]).val]
             db_patient == build_patient(payload.name, payload.age, payload.weight_kg,
                                         payload.height_cm, payload.muac_mm)
             called == <<<<payload.weight_kg, payload.height_cm>>>>
         IN  IF db_patient = ZeroDivisionError
             THEN /\ last' = BotReply("Error: JSONDecodeError", <<payload>>, called, <<>>)
                  /\ UNCHANGED <<patients, conv, user_data, probe, engine, application>>
             ELSE LET data == add_patient_api_response(patients, payload)
                  IN  /\ Len(patients) < MaxPatients
                      /\ patients' = session_commit(patients, db_patient)
                      /\ last' = BotReply(add_reply(data).text, <<payload>>, called,
                                          add_reply(data))
                      /\ UNCHANGED <<conv, user_data, probe, engine, application>>

\* bot.py /start, /summary and /export reply and assign nothing
bot_start == UNCHANGED vars

summary == UNCHANGED vars

export == UNCHANGED vars

NextBots ==
    \/ \E args \in BotArgs : add(args)
    \/ bot_start
    \/ summary
    \/ export
    \/ add_patient("u1")
    \/ \E text \in NameTexts : name("u1", text)
    \/ \E text \in AgeWords : age("u1", text)
    \/ \E text \in WeightWords : weight("u1", text)
    \/ \E text \in HeightWords : height("u1", text)
    \/ \E text \in MuacWords : muac("u1", text)
    \/ cancel("u1")

SpecBots == Init /\ [][NextBots]_vars

-----------------------------------------------------------------------------
(* Two chat users who give different names and MUACs, step by step, and    *)
(* requests to POST /patients under a third name in between                *)

CallerNames == {<<"A", "d", "a">>, <<"B", "o">>}
CallerMuacs == {<<"1", "1", "0">>, <<"1", "3", "0">>}

RequestBodies ==
    [name : {<<"C", "y">>}, age : {7}, weight_kg : {FInt(15)},
     height_cm : {FInt(100)}, muac_mm : {FInt(120)}]

NextCallers ==
    \/ \E patient \in RequestBodies : add_patient_api(patient, "POST /patients")
    \/ \E u \in Users : add_patient(u)
    \/ \E u \in Users, text \in CallerNames : name(u, text)
    \/ \E u \in Users : age(u, <<"3">>)
    \/ \E u \in Users : weight(u, <<"1", "5">>)
    \/ \E u \in Users : height(u, <<"1", "0", "0">>)
    \/ \E u \in Users, text \in CallerMuacs : muac(u, text)

SpecCallers == Init /\ [][NextCallers]_vars

-----------------------------------------------------------------------------
(* POST /webhook and the start-up of lines 312-476, where the engine and   *)
(* the Application are created by startup_event and are None before. The   *)
(* service starts either as that module or as the one of lines 1-310.      *)

InitDeferred ==
    /\ patients = <<>>
    /\ conv = [u \in Users |-> END]
    /\ user_data = [u \in Users |-> <<>>]
    /\ last = NoCall
    /\ probe = NoProbe
    /\ \/ engine = "None" /\ application = "None"
       \/ engine = "Engine" /\ application = "Application"

\* startup_event: create_engine gives the engine, or raises on a URL it
\* cannot read and leaves it None; initialize_telegram_bot, which takes no
\* parameter, is called with the engine, so the call raises TypeError and
\* application is set to None
startup_event ==
    /\ engine = "None" /\ application = "None"
    /\ \E created \in {"None", "Engine"} : engine' = created
    /\ application' = "None"
    /\ last' = [op |-> "startup", outcome |-> "started", called |-> <<>>]
    /\ UNCHANGED <<patients, conv, user_data, probe>>

\* the bodies posted to /webhook: an update of user u1 with a text, or a
\* body Update.de_json raises on
HookTexts ==
    {<<"/", "a", "d", "d">>, <<"/", "c", "a", "n", "c", "e", "l">>, <<"A", "d", "a">>,
     <<"3">>}

Updates == [user : {"u1"}, text : HookTexts, json : {"update", "garbage"}]

IsCommand(text) == text # <<>> /\ text[1] = "/"

\* application.process_update(update): the update goes to the first handler
\* that matches it (the command handlers, and the handler of the user's
\* conversation state for a text that is no command), or to none. An
\* exception of a handler is caught and logged by the Application, as the
\* handlers above record it; it does not reach the caller.
process_update(update) ==
    LET u == update.user
        text == update.text
    IN  \/ text = <<"/", "a", "d", "d">> /\ add_patient(u)
        \/ text = <<"/", "c", "a", "n", "c", "e", "l">> /\ cancel(u)
        \/ ~IsCommand(text) /\ name(u, text)
        \/ ~IsCommand(text) /\ age(u, text)
        \/ ~IsCommand(text) /\ weight(u, text)
        \/ ~IsCommand(text) /\ height(u, text)
        \/ ~IsCommand(text) /\ muac(u, text)
        \/ /\ \/ text = <<"/", "a", "d", "d">> /\ conv[u] # END
              \/ text = <<"/", "c", "a", "n", "c", "e", "l">> /\ conv[u] = END
              \/ ~IsCommand(text) /\ conv[u] = END
           /\ last' = [op |-> "no handler", outcome |-> "none", called |-> <<>>]
           /\ UNCHANGED <<patients, conv, user_data, probe, engine, application>>

WebhookError(error) == [op |-> "POST /webhook", outcome |-> error, called |-> <<>>]

\* the update is processed without the test of application
webhook_unguarded(update) ==
    IF update.json = "garbage"
    THEN /\ last' = WebhookError("de_json")
         /\ UNCHANGED <<patients, conv, user_data, probe, engine, application>>
    ELSE process_update(update)

\* POST /webhook (lines 390-403; lines 240-249 are the same without the
\* test of application, which is built there)
webhook(update) ==
    IF application = "None"
    THEN /\ last' = WebhookError("Telegram application not initialized")
         /\ UNCHANGED <<patients, conv, user_data, probe, engine, application>>
    ELSE IF update.json = "garbage"
    THEN /\ last' = WebhookError("de_json")
         /\ UNCHANGED <<patients, conv, user_data, probe, engine, application>>
    ELSE process_update(update)

\* what webhook returns for the step recorded in l: the dict of the branch
\* that returned, {"ok": True} when the try block ran to its end
webhook_returns(l) ==
    IF l.op = "POST /webhook" THEN [ok |-> FALSE, error |-> l.outcome]
    ELSE [ok |-> TRUE, error |-> ""]

\* get_session (lines 341-346), then the handler of POST /patients
add_patient_api_session(patient) ==
    IF engine = "None"
    THEN /\ last' = [op |-> "POST /patients", outcome |-> "500 Database not initialized",
                     called |-> <<>>]
         /\ UNCHANGED <<patients, conv, user_data, probe, engine, application>>
    ELSE add_patient_api(patient, "POST /patients")

NextHook ==
    \/ startup_event
    \/ \E update \in Updates : webhook(update)
    \/ \E patient \in RequestBodies : add_patient_api_session(patient)

SpecHook == InitDeferred /\ [][NextHook]_vars

-----------------------------------------------------------------------------
(* Claims about the classifier functions, under SpecFn *)

\* the band of the five-band table: left-closed, right-open intervals
BuildBand(bmi) ==
    IF FLt(bmi, FInt(16)) THEN "Severely underweight"
    ELSE IF FLe(FInt(16), bmi) /\ FLt(bmi, F(185, 10)) THEN "Underweight"
    ELSE IF FLe(F(185, 10), bmi) /\ FLt(bmi, FInt(25)) THEN "Normal"
    ELSE IF FLe(FInt(25), bmi) /\ FLt(bmi, FInt(30)) THEN "Overweight"
    ELSE "Obese"

\* C1: for every bmi, classify_build (main.py and models.py) returns the band
\* of the five-band table: < 16 Severely underweight, [16, 18.5) Underweight,
\* [18.5, 25) Normal, [25, 30) Overweight, >= 30 Obese.
C1_FiveBands ==
    probe.fn \in {"classify_build", "models.classify_build"}
        => probe.res = BuildBand(probe.arg)

\* the same of main.py's classify_build alone, which does hold
C1_FiveBandsMain ==
    probe.fn = "classify_build" => probe.res = BuildBand(probe.arg)

\* C2: for every muac, classify_muac (main.py and models.py) returns SAM
\* below 115, MAM in [115, 125) and Normal from 125 on; 115.0 is MAM and
\* 125.0 is Normal.
C2_MuacBands ==
    probe.fn \in {"classify_muac", "models.classify_muac"} =>
        /\ FLt(probe.arg, FInt(115)) => probe.res = "SAM"
        /\ FLe(FInt(115), probe.arg) /\ FLt(probe.arg, FInt(125)) => probe.res = "MAM"
        /\ FLe(FInt(125), probe.arg) => probe.res = "Normal"

C2_Witness ==
    /\ probe.fn = "classify_muac"
    /\ probe.arg = FInt(115)
    /\ probe.res = "MAM"

\* the status strings of Statuses that contain the substring "SAM", "MAM"
ContainsSAM == {"SAM", "SAM (Severe Acute Malnutrition)", "SAM/MAM"}
ContainsMAM == {"MAM", "MAM (Moderate Acute Malnutrition)", "SAM/MAM"}

\* C3: get_recommendation resolves a status that contains "SAM" (also one
\* that contains "MAM" as well, or a decorated one) to the SAM message, else
\* one that contains "MAM" to the MAM message, else to the Normal message.
C3_SubstringPrecedence ==
    /\ probe.fn = "get_recommendation" =>
          probe.res = IF probe.arg \in ContainsSAM THEN RecSAM
                      ELSE IF probe.arg \in ContainsMAM THEN RecMAM
                      ELSE RecNormal
    /\ probe.fn = "models.get_recommendation" =>
          probe.res = IF probe.arg \in ContainsSAM THEN models_recommendations.SAM
                      ELSE IF probe.arg \in ContainsMAM THEN models_recommendations.MAM
                      ELSE models_recommendations.Normal

\* weight / (height / 100)^2 for height # 0, computed in one step
ExactBmi(w, h) == F(w.n * 10000 * h.d * h.d, w.d * h.n * h.n)

\* C4: for weight > 0 and height > 0, calculate_bmi (main.py and models.py)
\* returns a strictly positive value, equal to weight / (height/100)^2
\* rounded to 2 decimals, so with no more than 2 decimal digits.
C4_PositiveRounded ==
    (/\ probe.fn \in {"calculate_bmi", "models.calculate_bmi"}
     /\ FLt(FInt(0), probe.arg[1])
     /\ FLt(FInt(0), probe.arg[2]))
        => /\ probe.res # ZeroDivisionError
           /\ FLt(FInt(0), probe.res)
           /\ probe.res = round(ExactBmi(probe.arg[1], probe.arg[2]), 2)
           /\ 100 % probe.res.d = 0

\* C10: the pipeline on the three scenarios: (15, 100, 120) gives 15.0,
\* Severely underweight, MAM and the moderate-malnutrition message;
\* (12.5, 95, 118) gives 13.85, Severely underweight, MAM; (20, 110, 130)
\* gives 16.53, Underweight, Normal and the routine-care message.
C10_Scenarios ==
    probe.fn = "pipeline" =>
        /\ probe.arg = <<FInt(15), FInt(100), FInt(120)>> =>
              probe.res = [bmi |-> FInt(15), build |-> "Severely underweight",
                           nutrition_status |-> "MAM", recommendation |-> RecMAM]
        /\ probe.arg = <<F(25, 2), FInt(95), FInt(118)>> =>
              /\ probe.res # ZeroDivisionError
              /\ probe.res.bmi = F(1385, 100)
              /\ probe.res.build = "Severely underweight"
              /\ probe.res.nutrition_status = "MAM"
        /\ probe.arg = <<FInt(20), FInt(110), FInt(130)>> =>
              probe.res = [bmi |-> F(1653, 100), build |-> "Underweight",
                           nutrition_status |-> "Normal", recommendation |-> RecNormal]

C10_Witness ==
    /\ probe.fn = "pipeline"
    /\ probe.arg = <<FInt(20), FInt(110), FInt(130)>>
    /\ probe.res # ZeroDivisionError
    /\ probe.res.bmi = F(1653, 100)

-----------------------------------------------------------------------------
(* Claims about the front-ends and the table, under Spec *)

\* C5: an add with height_cm = 0 (POST /patients, POST /dashboard/add, the
\* chat conversation) is rejected by pre-validation before calculate_bmi is
\* called: the classifier is never invoked with height 0, the request is
\* answered as a validation error and not as a failure of the handler, no
\* conversation is left holding a height of 0, and no row has height 0.
C5_HeightZeroRejected ==
    /\ \A i \in DOMAIN last.called : last.called[i][2] # FInt(0)
    /\ last.outcome \notin {"500", "ZeroDivisionError"}
    /\ \A u \in Users :
          "height" \in DOMAIN user_data[u] => user_data[u].height # FInt(0)
    /\ \A i \in DOMAIN patients : patients[i].height_cm # FInt(0)

\* the part of C5 that does hold: no row with height 0 is ever stored
C5_NoRowWithHeightZero ==
    \A i \in DOMAIN patients : patients[i].height_cm # FInt(0)

\* C6: in every reachable state every stored row has bmi =
\* calculate_bmi(weight_kg, height_cm), build = classify_build(bmi),
\* nutrition_status = classify_muac(muac_mm) and recommendation =
\* get_recommendation(nutrition_status).
C6_DerivedAgree ==
    \A i \in DOMAIN patients :
        LET r == patients[i]
        IN  /\ r.bmi = calculate_bmi(r.weight_kg, r.height_cm)
            /\ r.build = classify_build(r.bmi)
            /\ r.nutrition_status = classify_muac(r.muac_mm)
            /\ r.recommendation = get_recommendation(r.nutrition_status)

\* a row stored by the chat conversation next to a row of another class
C6_Witness ==
    /\ Len(patients) = 2
    /\ last.op = "muac" /\ last.outcome = "Patient added to database!"
    /\ patients[1].nutrition_status = "SAM"
    /\ patients[2].nutrition_status = "MAM"

\* C7: a stored row is immutable: every step of every operation leaves the
\* rows stored so far as they are, in their places, and adds at most one row
\* behind them.
C7_AppendOnly ==
    [][/\ Len(patients) <= Len(patients') /\ Len(patients') <= Len(patients) + 1
       /\ SubSeq(patients', 1, Len(patients)) = patients]_vars

\* a row was stored, then another, then a conversation was cancelled
C7_Witness ==
    /\ Len(patients) = 2
    /\ last.op = "/cancel"

\* C8: the classifier is deterministic and stateless: two rows stored from
\* identical inputs hold identical derived fields, however many rows were
\* stored and whichever operations ran between the two calls.
C8_SameInputsSameOutputs ==
    \A i, j \in DOMAIN patients :
        LET r == patients[i]
            q == patients[j]
        IN  (/\ r.name = q.name /\ r.age = q.age /\ r.weight_kg = q.weight_kg
             /\ r.height_cm = q.height_cm /\ r.muac_mm = q.muac_mm)
                => /\ r.bmi = q.bmi
                   /\ r.build = q.build
                   /\ r.nutrition_status = q.nutrition_status
                   /\ r.recommendation = q.recommendation

\* two rows from identical inputs, the second stored by the conversation
C8_Witness ==
    /\ Len(patients) = 2
    /\ last.op = "muac" /\ last.outcome = "Patient added to database!"
    /\ [patients[1] EXCEPT !.id = 0] = [patients[2] EXCEPT !.id = 0]

\* C9: the derived fields are independent of age: two rows that agree on
\* weight_kg, height_cm and muac_mm and differ in age hold the same bmi,
\* build, nutrition_status and recommendation.
C9_AgeIndependent ==
    \A i, j \in DOMAIN patients :
        LET r == patients[i]
            q == patients[j]
        IN  (/\ r.age # q.age /\ r.weight_kg = q.weight_kg
             /\ r.height_cm = q.height_cm /\ r.muac_mm = q.muac_mm)
                => <<r.bmi, r.build, r.nutrition_status, r.recommendation>>
                     = <<q.bmi, q.build, q.nutrition_status, q.recommendation>>

\* two rows of ages 3 and 7 with the same measurements
C9_Witness ==
    /\ Len(patients) = 2
    /\ patients[1].age = 3 /\ patients[2].age = 7
    /\ patients[1].weight_kg = patients[2].weight_kg
    /\ patients[1].height_cm = patients[2].height_cm
    /\ patients[1].muac_mm = patients[2].muac_mm

-----------------------------------------------------------------------------
(* Claims about the exports, the identifiers, the conversation, the entry  *)
(* paths and the summaries                                                 *)

\* the CSV of the claim: the ten field names, then one row per stored record
\* in stored order, each with the ten fields in that order
TenFieldCsv(table) ==
    <<CsvHeader>> \o
    [i \in DOMAIN table |->
        <<table[i].id, table[i].name, table[i].age, table[i].weight_kg,
          table[i].height_cm, table[i].muac_mm, table[i].bmi, table[i].build,
          table[i].nutrition_status, table[i].recommendation>>]

\* C11: every CSV export (GET /export, the /export command of main.py and
\* the /export command of bot.py) gives one row per stored record, in stored
\* order, with the ten fields id, name, age, weight_kg, height_cm, muac_mm,
\* bmi, build, nutrition_status, recommendation, and succeeds whenever
\* records are stored.
C11_ExportTenFields ==
    patients # <<>> =>
        /\ writer_rows(patients) = TenFieldCsv(patients)
        /\ bot_export(patients).document = TenFieldCsv(patients)

\* the same of GET /export and the /export command of main.py alone, which
\* does hold
C11_ExportTenFieldsMain ==
    patients # <<>> => writer_rows(patients) = TenFieldCsv(patients)

\* the outcomes of a successful add: the 200 of the two POST routes and the
\* closing reply of the conversation
AddSucceeded == {"200", "Patient added to database!"}

HoldsInputs(row, patient) ==
    /\ row.name = patient.name /\ row.age = patient.age
    /\ row.weight_kg = patient.weight_kg /\ row.height_cm = patient.height_cm
    /\ row.muac_mm = patient.muac_mm

IdsDistinct(table) ==
    /\ \A i \in DOMAIN table : table[i].id \in Nat \ {0}
    /\ \A i, j \in DOMAIN table : i # j => table[i].id # table[j].id

\* C12: every successful add persists exactly one new record under an
\* assigned integer id, the ids of the stored records are pairwise distinct
\* in every state, and the id in the response of POST /patients is the id of
\* the one record that holds the inputs of that request.
C12_AssignedIds ==
    [][/\ IdsDistinct(patients')
       /\ last'.outcome \in AddSucceeded =>
            /\ Len(patients') = Len(patients) + 1
            /\ SubSeq(patients', 1, Len(patients)) = patients
       /\ \A patient \in Patients :
            (/\ patients' # patients /\ last'.op = "POST /patients"
             /\ add_patient_api(patient, "POST /patients")) =>
                LET response == add_patient_api_response(patients, patient)
                IN  /\ HoldsInputs(response, patient)
                    /\ \E i \in DOMAIN patients' : patients'[i].id = response.id
                    /\ \A i \in DOMAIN patients' :
                          patients'[i].id = response.id =>
                              /\ i = Len(patients')
                              /\ HoldsInputs(patients'[i], patient)]_vars

\* a second record was added by POST /patients, with other inputs than the
\* first
C12_Witness ==
    /\ Len(patients) = 2
    /\ last.op = "POST /patients" /\ last.outcome = "200"
    /\ patients[2].id = 2 /\ patients[1].id = 1
    /\ patients[1].muac_mm # patients[2].muac_mm

\* the state that follows each state of the conversation when its input is
\* accepted
Following ==
    [s \in {"NAME", "AGE", "WEIGHT", "HEIGHT", "MUAC"} |->
        CASE s = "NAME" -> "AGE" [] s = "AGE" -> "WEIGHT" [] s = "WEIGHT" -> "HEIGHT"
          [] s = "HEIGHT" -> "MUAC" [] s = "MUAC" -> END]

\* the fields accepted before each state
AcceptedBefore ==
    [s \in {END, "NAME", "AGE", "WEIGHT", "HEIGHT", "MUAC"} |->
        CASE s = END -> {} [] s = "NAME" -> {} [] s = "AGE" -> {"name"}
          [] s = "WEIGHT" -> {"name", "age"} [] s = "HEIGHT" -> {"name", "age", "weight"}
          [] s = "MUAC" -> {"name", "age", "weight", "height"}]

\* the row the conversation of u persists when its MUAC message is text
ConversationRow(data, text, id) ==
    [PatientDB(data.name, data.age, data.weight, data.height, float(text).val,
               derive(data.weight, data.height, float(text).val))
     EXCEPT !.id = id]

\* C13: the conversation started by /add accepts its inputs in the order
\* name, age, weight, height, MUAC: a state is left only for the following
\* one (or for END by /cancel), never for an earlier or a later one; the
\* classifier is called and a record persisted only in state MUAC with the
\* four earlier inputs accepted; and a conversation that reaches END from
\* the MUAC step persists exactly one record, built from its own inputs.
C13_ConversationOrder ==
    [][\A u \in Users :
        /\ AcceptedBefore[conv'[u]] \subseteq DOMAIN user_data'[u]
        /\ DOMAIN user_data'[u] \subseteq AcceptedBefore[conv'[u]] \cup
                (IF conv'[u] = "MUAC" THEN {"muac"} ELSE {})
        /\ conv'[u] # conv[u] =>
              \/ conv[u] = END /\ conv'[u] = "NAME" /\ last'.op = "/add"
              \/ conv[u] # END /\ conv'[u] = END /\ last'.op = "/cancel"
                   /\ patients' = patients
              \/ conv[u] # END /\ conv'[u] = Following[conv[u]] /\ last'.op # "/cancel"
        /\ last'.op = "muac" /\ last'.called # <<>> =>
              \E v \in Users :
                  /\ conv[v] = "MUAC"
                  /\ AcceptedBefore["MUAC"] \subseteq DOMAIN user_data[v]
        /\ conv[u] = "MUAC" /\ conv'[u] = END /\ last'.op = "muac" =>
              \E text \in MuacTexts :
                  /\ float(text).ok
                  /\ patients' = Append(patients,
                        ConversationRow(user_data[u], text, MaxId(patients) + 1))
        /\ patients' # patients /\ last'.op \notin {"POST /patients", "POST /dashboard/add"} =>
              \E v \in Users : conv[v] = "MUAC" /\ conv'[v] = END]_vars

\* a conversation went through its five states and persisted its record
\* while the other user's conversation was waiting for a height
C13_Witness ==
    /\ last.op = "muac" /\ last.outcome = "Patient added to database!"
    /\ conv["u1"] = END /\ conv["u2"] = "HEIGHT"
    /\ Len(patients) = 1
    /\ patients[1].name = <<"A", "d", "a">> /\ patients[1].muac_mm = FInt(120)

\* a numeric text: an optional sign and digits, for a float with at most one
\* point among them
IsIntegerNumeral(text) == Unsigned(text) # <<>> /\ IsDigits(Unsigned(text))

IsNumeral(text) ==
    LET body == Unsigned(text)
    IN  /\ \E i \in DOMAIN body : body[i] \in DOMAIN Digit
        /\ \A i \in DOMAIN body : body[i] = "." \/ body[i] \in DOMAIN Digit
        /\ Cardinality({i \in DOMAIN body : body[i] = "."}) <= 1

\* the step answered with the prompt and nothing else: same state, same
\* fields, no classifier call, no record
Rejected(prompt) ==
    /\ last'.outcome = prompt /\ last'.called = <<>>
    /\ conv' = conv /\ user_data' = user_data /\ patients' = patients

\* C14: a non-numeric message in state AGE, WEIGHT, HEIGHT or MUAC of the
\* conversation is answered with the 'Invalid ...' prompt of the state and
\* changes neither the state nor the collected fields nor the table, and
\* calls no classifier; /add of bot.py with a non-numeric age, weight,
\* height or MUAC replies an error and posts nothing.
C14_NonNumericRejected ==
    [][/\ \A text \in AgeWords :
            age("u1", text) /\ ~IsIntegerNumeral(text) =>
                Rejected("Invalid age. Enter a number:")
       /\ \A text \in WeightWords :
            weight("u1", text) /\ ~IsNumeral(text) =>
                Rejected("Invalid weight. Enter a number:")
       /\ \A text \in HeightWords :
            height("u1", text) /\ ~IsNumeral(text) =>
                Rejected("Invalid height. Enter a number:")
       /\ \A text \in MuacWords :
            muac("u1", text) /\ ~IsNumeral(text) =>
                Rejected("Invalid MUAC. Enter a number:")
       /\ \A args \in BotArgs :
            /\ add(args) /\ Len(args) = 5
            /\ ~IsIntegerNumeral(args[2]) \/ \E i \in 3 .. 5 : ~IsNumeral(args[i])
            => /\ last'.posted = <<>> /\ last'.called = <<>>
               /\ last'.outcome = "Error: ValueError"
               /\ patients' = patients]_vars

\* the same of the texts that are neither numeric nor a word float() reads,
\* which does hold
C14_OtherTextsRejected ==
    [][/\ \A text \in AgeWords :
            age("u1", text) /\ ~IsIntegerNumeral(text) =>
                Rejected("Invalid age. Enter a number:")
       /\ \A text \in WeightWords \ FloatWords :
            weight("u1", text) /\ ~IsNumeral(text) =>
                Rejected("Invalid weight. Enter a number:")
       /\ \A text \in HeightWords \ FloatWords :
            height("u1", text) /\ ~IsNumeral(text) =>
                Rejected("Invalid height. Enter a number:")
       /\ \A text \in MuacWords \ FloatWords :
            muac("u1", text) /\ ~IsNumeral(text) =>
                Rejected("Invalid MUAC. Enter a number:")
       /\ \A args \in BotArgs :
            /\ add(args) /\ Len(args) = 5
            /\ ~IsIntegerNumeral(args[2]) \/ \E i \in 3 .. 5 : ~IsNumeral(args[i])
            => /\ last'.posted = <<>> /\ last'.called = <<>>
               /\ last'.outcome = "Error: ValueError"
               /\ patients' = patients]_vars

\* C15: /cancel is taken in every state of an active conversation; it ends
\* the conversation, clears the user's collected fields and persists
\* nothing; and a user who is in no conversation has no collected field, so
\* a conversation started by /add begins with none.
C15_CancelClears ==
    [][\A u \in Users :
        /\ conv[u] # END => ENABLED cancel(u)
        /\ conv[u] # END /\ conv'[u] = END /\ last'.op = "/cancel" =>
              /\ DOMAIN user_data'[u] = {}
              /\ patients' = patients
              /\ \A v \in Users \ {u} : conv'[v] = conv[v] /\ user_data'[v] = user_data[v]
        /\ conv'[u] = END => DOMAIN user_data'[u] = {}
        /\ conv[u] = END /\ conv'[u] = "NAME" => DOMAIN user_data'[u] = {}]_vars

\* u1 cancelled while u2, who has completed a conversation before and is in
\* a second one, waits with three fields collected
C15_Witness ==
    /\ last.op = "/cancel"
    /\ conv["u1"] = END /\ DOMAIN user_data["u1"] = {}
    /\ conv["u2"] = "HEIGHT" /\ DOMAIN user_data["u2"] = {"name", "age", "weight"}
    /\ Len(patients) = 1

\* a row without its id
WithoutId(row) == [row EXCEPT !.id = 0]

\* the record the inputs stand for: the inputs and the four fields derived
\* from them
Assessment(patient) ==
    PatientDB(patient.name, patient.age, patient.weight_kg, patient.height_cm,
              patient.muac_mm,
              derive(patient.weight_kg, patient.height_cm, patient.muac_mm))

\* the inputs a conversation has collected, named as the Patient model names
\* them
Collected(data, text) ==
    [name |-> data.name, age |-> data.age, weight_kg |-> data.weight,
     height_cm |-> data.height, muac_mm |-> float(text).val]

\* C16: for the same inputs, POST /patients, POST /dashboard/add and a
\* completed conversation persist the same record apart from its id: each
\* path appends, for the inputs it was given, the one record those inputs
\* stand for, and the inputs a conversation collects are inputs the two
\* routes take.
C16_PathsEquivalent ==
    [][patients' # patients =>
        /\ \A patient \in Patients :
             /\ add_patient_api(patient, "POST /patients") =>
                   WithoutId(patients'[Len(patients')]) = Assessment(patient)
             /\ add_patient_api(patient, "POST /dashboard/add") =>
                   WithoutId(patients'[Len(patients')]) = Assessment(patient)
        /\ \A u \in Users, text \in MuacTexts :
             muac(u, text) =>
                 /\ Collected(user_data[u], text) \in Patients
                 /\ WithoutId(patients'[Len(patients')]) =
                        Assessment(Collected(user_data[u], text))
        /\ \/ \E patient \in Patients : add_patient_api(patient, "POST /patients")
           \/ \E patient \in Patients : add_patient_api(patient, "POST /dashboard/add")
           \/ \E u \in Users, text \in MuacTexts : muac(u, text)]_vars

\* a conversation has just persisted a second record that equals the first
\* apart from the id
C16_Witness ==
    /\ Len(patients) = 2
    /\ last.op = "muac" /\ last.outcome = "Patient added to database!"
    /\ patients[1].id # patients[2].id
    /\ WithoutId(patients[1]) = WithoutId(patients[2])
    /\ patients[2].nutrition_status = "SAM"

\* C17: however the messages of two chat users and HTTP add requests
\* interleave, a handler step of one user leaves the other user's state and
\* collected fields alone, the record a caller persists holds that caller's
\* inputs and the fields derived from them, and every record persisted
\* before stays in the table as it was.
C17_CallersIsolated ==
    [][/\ \A u \in Users :
            conv'[u] # conv[u] \/ user_data'[u] # user_data[u] =>
                /\ \A v \in Users \ {u} :
                      conv'[v] = conv[v] /\ user_data'[v] = user_data[v]
                /\ conv[u] = "MUAC" /\ conv'[u] = END =>
                      /\ Len(patients') = Len(patients) + 1
                      /\ \E text \in CallerMuacs :
                            WithoutId(patients'[Len(patients')]) =
                                Assessment(Collected(user_data[u], text))
       /\ last'.op = "POST /patients" /\ patients' # patients =>
            /\ conv' = conv /\ user_data' = user_data
            /\ Len(patients') = Len(patients) + 1
            /\ \E patient \in RequestBodies :
                  WithoutId(patients'[Len(patients')]) = Assessment(patient)
       /\ Len(patients') >= Len(patients)
       /\ SubSeq(patients', 1, Len(patients)) = patients]_vars

\* Bo's record was persisted by one user and the request's record after it,
\* while the other user, who gave the name Ada, is asked for the MUAC
C17_Witness ==
    /\ Len(patients) = 2
    /\ patients[1].name = <<"B", "o">> /\ patients[1].muac_mm = FInt(130)
    /\ patients[2].name = <<"C", "y">> /\ patients[2].age = 7
    /\ conv["u2"] = END
    /\ conv["u1"] = "MUAC" /\ user_data["u1"].name = <<"A", "d", "a">>

Balanced(summary_, table) ==
    /\ summary_.total = Len(table)
    /\ summary_.total = summary_.sam + summary_.mam + summary_.normal

\* C18: in every state the summaries of the dashboard, of /list and of
\* bot.py /summary have total = sam + mam + normal, with total the number of
\* stored records, and every stored record has one of the three statuses
\* SAM, MAM, Normal, so it is counted in exactly one class.
C18_SummaryBalanced ==
    /\ Balanced(dashboard_summary(patients), patients)
    /\ Balanced(get_patient_summary(patients), patients)
    /\ Balanced(bot_summary(patients), patients)
    /\ \A i \in DOMAIN patients :
          Cardinality({st \in {"SAM", "MAM", "Normal"} :
                          patients[i].nutrition_status = st}) = 1

\* two records of different classes are stored and counted
C18_Witness ==
    /\ Len(patients) = 2
    /\ patients[1].nutrition_status = "SAM" /\ patients[2].nutrition_status = "Normal"
    /\ dashboard_summary(patients) = [total |-> 2, sam |-> 1, mam |-> 0, normal |-> 1]
    /\ bot_summary(patients) = get_patient_summary(patients)

\* the five arguments are well formed: an integer numeral and three numerals
WellFormed(args) ==
    /\ Len(args) = 5
    /\ IsIntegerNumeral(args[2])
    /\ \A i \in 3 .. 5 : IsNumeral(args[i])

\* C19: /add of bot.py with five well-formed arguments posts exactly one
\* request to the patients API and, when the API has stored the record,
\* replies 'Added: <name> (<nutrition_status>)' with the name and the status
\* of the stored record; with any other number of arguments it replies the
\* usage text and posts nothing.
C19_BotAddConfirms ==
    [][\A args \in BotArgs :
        last'.op = "bot /add" /\ add(args) =>
            /\ WellFormed(args) =>
                  /\ Len(last'.posted) = 1
                  /\ patients' # patients =>
                        /\ last'.reply.text = "Added"
                        /\ last'.reply.name = patients'[Len(patients')].name
                        /\ last'.reply.nutrition_status =
                               patients'[Len(patients')].nutrition_status
            /\ Len(args) # 5 =>
                  /\ last'.outcome = "Usage: /add Name Age Weight(kg) Height(cm) MUAC(mm)"
                  /\ last'.posted = <<>>
                  /\ patients' = patients]_vars

\* the part on the requests alone, which does hold: one POST for five
\* well-formed arguments, the usage text and no POST for another number
C19_BotAddPosts ==
    [][\A args \in BotArgs :
        last'.op = "bot /add" /\ add(args) =>
            /\ WellFormed(args) => Len(last'.posted) = 1
            /\ Len(args) # 5 =>
                  /\ last'.outcome = "Usage: /add Name Age Weight(kg) Height(cm) MUAC(mm)"
                  /\ last'.posted = <<>>
                  /\ patients' = patients]_vars

\* C20: POST /webhook always returns a dict and raises nothing: {ok: true}
\* only when the Application is built and process_update has returned,
\* {ok: false, error} when the processing raises (the body is no update),
\* and {ok: false} with no update processed and no record or conversation
\* changed when the Application is None; and POST /patients stores its
\* record whenever the engine is created, whether or not the Application is.
C20_WebhookGuarded ==
    [][/\ \A update \in Updates :
            webhook(update) =>
                LET r == webhook_returns(last')
                IN  /\ r.ok => application # "None" /\ update.json = "update"
                    /\ update.json = "garbage" => ~r.ok /\ r.error # ""
                    /\ application = "None" =>
                          /\ ~r.ok /\ r.error = "Telegram application not initialized"
                          /\ patients' = patients /\ conv' = conv
                          /\ user_data' = user_data
       /\ \A patient \in RequestBodies :
            (/\ add_patient_api_session(patient)
             /\ engine # "None" /\ Len(patients) < MaxPatients) =>
                /\ last'.outcome = "200"
                /\ Len(patients') = Len(patients) + 1]_vars

\* the start-up has created the engine and no Application; a record was
\* stored by POST /patients, and an update posted to /webhook after it was
\* answered {ok: false} and left the table and the conversations alone
C20_Witness ==
    /\ engine = "Engine" /\ application = "None"
    /\ Len(patients) = 1
    /\ last = WebhookError("Telegram application not initialized")
    /\ ~webhook_returns(last).ok
    /\ \A u \in Users : conv[u] = END

====
